---- MODULE Spec2Model ----
(***************************************************************************)
(* Model of synchro_audcasts.py: Synchronizer.validate_paths and           *)
(* Synchronizer.run over an abstract filesystem.                            *)
(*                                                                          *)
(* File names are 1..NumNames; a directory listing (Path.iterdir) yields    *)
(* them in increasing order, the same order every time the directory is     *)
(* listed.  An entry is "none" (absent), "file" (regular file), "dir"       *)
(* (subdirectory) or "link" (symbolic link to an existing regular file).    *)
(* The player's directories live on the player mount, so removing a file    *)
(* from them gives its bytes back to the mount and copying one takes them.  *)
(***************************************************************************)
EXTENDS Integers, FiniteSets, Sequences, TLC

\* ---- bounds of the model ----
NumNames == 2
MaxSize == 2
MaxFree == 2
MaxSetup == 2

Names == 1..NumNames
None == "none"
EntryKinds == {"file", "dir", "link"}

\* The six configured locations, plus Path(playerpath, 'delete'), the
\* directory the delete phase really scans.
Configured == {"host", "hostarchive", "playermount", "playerpath",
               "playerarchive", "playerdelete"}
Locations == Configured \cup {"playerpath_delete"}

VARIABLES
    pathKind,     \* Locations -> "missing" | "dir" | "file"
    mounted,      \* os.path.ismount(playermount)
    host,         \* Names -> entry kind in HostPath
    hostArchive,  \* Names -> entry kind in HostArchivePath
    player,       \* Names -> entry kind in PlayerPath
    pdelete,      \* Names -> entry kind in PlayerPath/delete
    parchive,     \* Names -> entry kind in PlayerArchivePath
    blob,         \* 0, or the name whose content now sits at the path
                  \* hostarchive when that path is not a directory
    size,         \* Names -> st_size of the files of that name (0: no file yet)
    free,         \* f_frsize * f_bavail of the player mount
    setupOps,     \* environment operations performed before the first run
    pc,           \* "idle" | "archive" | "delete" | "copy" | "done" | "failed" | "crashed"
    idx,          \* the entry the running loop is at (NumNames + 1: listing exhausted)
    debug,        \* the debug argument of the current run
    counts,       \* [archived, deleted, copied] of the current run
    ret,          \* "none" | "true" | "false": what run returned
    summaries,    \* number of summary lines logged by the current run
    phases,       \* the phases the current run has entered, in order
    stopAt,       \* the host file at which the copy loop broke (0: it did not)
    second,       \* TRUE while the second of two consecutive runs is under way
    snap,         \* the filesystem when the current run started
    prev          \* how the previous run ended

vars == <<pathKind, mounted, host, hostArchive, player, pdelete, parchive, blob,
          size, free, setupOps, pc, idx, debug, counts, ret, summaries, phases,
          stopAt, second, snap, prev>>

fsVars == <<pathKind, mounted, host, hostArchive, player, pdelete, parchive,
            blob, size, free>>
runVars == <<pc, idx, debug, counts, ret, summaries, phases, stopAt, second, prev>>

FS == [pathKind |-> pathKind, mounted |-> mounted, host |-> host,
       hostArchive |-> hostArchive, player |-> player, pdelete |-> pdelete,
       parchive |-> parchive, blob |-> blob, free |-> free]

Empty == [n \in Names |-> None]
ZeroCounts == [archived |-> 0, deleted |-> 0, copied |-> 0]
NoPrev == [pc |-> "idle", debug |-> FALSE, counts |-> ZeroCounts]

\* ---- pure helpers ----

\* p.is_file(): follows symbolic links.
IsFile(k) == k \in {"file", "link"}

\* p.is_symlink()
IsSymlink(k) == k = "link"

\* The loop filter: not (p.is_file() and not p.is_symlink()) -> continue
Eligible(k) == IsFile(k) /\ ~IsSymlink(k)

PathValidatorAlways(p) == TRUE

\* _path_validator: path_to_check.exists()
PathValidator(p) == pathKind[p] # "missing"

\* Synchronizer.validate_paths
ValidatePaths ==
    /\ PathValidator("host")
    /\ PathValidator("hostarchive")
    /\ PathValidator("playermount")
    /\ mounted
    /\ PathValidator("playerpath")
    /\ PathValidator("playerarchive")
    /\ PathValidator("playerdelete")

\* _space_checker: bytes_available >= file_size
SpaceChecker(avail, fileSize) == avail >= fileSize

MutatesAlways(dbg) == TRUE

\* the "if not debug:" guard in front of every filesystem operation
Mutates(dbg) == ~dbg

\* Path(self._path_host, p.name).exists(): false when HostPath is not a
\* directory, true for any kind of entry of that name.
HostExists(n) == pathKind["host"] = "dir" /\ host[n] # None

\* Path(self._path_playerpath, p.name).exists()
PlayerExists(n) == pathKind["playerpath"] = "dir" /\ player[n] # None

\* shutil.move(src, hostarchive) succeeds: into a directory only when it
\* has no entry of that name; onto a regular file by replacing it (a
\* directory cannot replace a file); onto a missing path by renaming.
MoveSucceeds(srcKind, n) ==
    CASE pathKind["hostarchive"] = "dir" -> hostArchive[n] = None
      [] pathKind["hostarchive"] = "file" -> srcKind # "dir"
      [] OTHER -> TRUE

\* The host archive after a successful shutil.move of an entry named n.
MovedArchive(srcKind, n) ==
    IF pathKind["hostarchive"] = "dir"
    THEN [hostArchive EXCEPT ![n] = srcKind]
    ELSE hostArchive

MovedBlob(n) == IF pathKind["hostarchive"] = "dir" THEN blob ELSE n

MovedPathKind(srcKind) ==
    IF pathKind["hostarchive"] = "missing"
    THEN [pathKind EXCEPT !["hostarchive"] = IF srcKind = "dir" THEN "dir" ELSE "file"]
    ELSE pathKind

\* The listing of a directory from position i on: the first name at or after
\* i that has an entry there, NumNames + 1 when the listing is exhausted.
Listed(d, i) ==
    IF \E n \in Names : n >= i /\ d[n] # None
    THEN CHOOSE n \in Names : /\ n >= i /\ d[n] # None
                              /\ \A m \in Names : (m >= i /\ d[m] # None) => n <= m
    ELSE NumNames + 1

Bump(field) == [counts EXCEPT ![field] = @ + 1]

\* ---- the environment, before the first run ----

Init ==
    /\ pathKind = [p \in Locations |-> "dir"]
    /\ mounted = TRUE
    /\ host = Empty
    /\ hostArchive = Empty
    /\ player = Empty
    /\ pdelete = Empty
    /\ parchive = Empty
    /\ blob = 0
    /\ size = [n \in Names |-> 0]
    /\ free \in 0..MaxFree
    /\ setupOps = 0
    /\ pc = "idle"
    /\ idx = 1
    /\ debug = FALSE
    /\ counts = ZeroCounts
    /\ ret = "none"
    /\ summaries = 0
    /\ phases = <<>>
    /\ stopAt = 0
    /\ second = FALSE
    /\ snap = FS
    /\ prev = NoPrev

Setup == pc = "idle" /\ setupOps < MaxSetup

\* The size of a new regular file: files of one name have one size.
SizedWith(n, s) == IF size[n] = 0 THEN [size EXCEPT ![n] = s] ELSE size

\* Somebody puts an entry into HostPath.
PutHost ==
    /\ Setup
    /\ pathKind["host"] = "dir"
    /\ \E n \in Names, k \in EntryKinds, s \in 1..MaxSize :
        /\ host[n] = None
        /\ host' = [host EXCEPT ![n] = k]
        /\ size' = IF k = "file" THEN SizedWith(n, s) ELSE size
    /\ setupOps' = setupOps + 1
    /\ UNCHANGED <<pathKind, mounted, hostArchive, player, pdelete, parchive, blob, free>>
    /\ UNCHANGED runVars
    /\ snap' = FS'

\* HostArchivePath already holds an entry.
PutHostArchive ==
    /\ Setup
    /\ pathKind["hostarchive"] = "dir"
    /\ \E n \in Names :
        /\ hostArchive[n] = None
        /\ hostArchive' = [hostArchive EXCEPT ![n] = "file"]
    /\ setupOps' = setupOps + 1
    /\ UNCHANGED <<pathKind, mounted, host, player, pdelete, parchive, blob, size, free>>
    /\ UNCHANGED runVars
    /\ snap' = FS'

\* PlayerPath already holds an entry.
PutPlayer ==
    /\ Setup
    /\ pathKind["playerpath"] = "dir"
    /\ \E n \in Names :
        /\ player[n] = None
        /\ player' = [player EXCEPT ![n] = "file"]
    /\ setupOps' = setupOps + 1
    /\ UNCHANGED <<pathKind, mounted, host, hostArchive, pdelete, parchive, blob, size, free>>
    /\ UNCHANGED runVars
    /\ snap' = FS'

\* The player marks a file for deletion (or something else sits there).
PutDelete ==
    /\ Setup
    /\ pathKind["playerpath_delete"] = "dir"
    /\ \E n \in Names, k \in EntryKinds, s \in 1..MaxSize :
        /\ pdelete[n] = None
        /\ pdelete' = [pdelete EXCEPT ![n] = k]
        /\ size' = IF k = "file" THEN SizedWith(n, s) ELSE size
    /\ setupOps' = setupOps + 1
    /\ UNCHANGED <<pathKind, mounted, host, hostArchive, player, parchive, blob, free>>
    /\ UNCHANGED runVars
    /\ snap' = FS'

\* The player archives a file (or something else sits there).
PutArchive ==
    /\ Setup
    /\ pathKind["playerarchive"] = "dir"
    /\ \E n \in Names, k \in EntryKinds, s \in 1..MaxSize :
        /\ parchive[n] = None
        /\ parchive' = [parchive EXCEPT ![n] = k]
        /\ size' = IF k = "file" THEN SizedWith(n, s) ELSE size
    /\ setupOps' = setupOps + 1
    /\ UNCHANGED <<pathKind, mounted, host, hostArchive, player, pdelete, blob, free>>
    /\ UNCHANGED runVars
    /\ snap' = FS'

Contents(p) ==
    CASE p = "host" -> host
      [] p = "hostarchive" -> hostArchive
      [] p = "playerpath" -> player
      [] p = "playerarchive" -> parchive
      [] p = "playerpath_delete" -> pdelete
      [] OTHER -> Empty

\* A location is absent, or is a regular file instead of a directory.  It
\* holds no entries then; without PlayerPath there is no PlayerPath/delete,
\* and a mount point that is no directory is no active mount.
BreakPath ==
    /\ Setup
    /\ \E p \in Locations, k \in {"missing", "file"} :
        /\ pathKind[p] = "dir"
        /\ Contents(p) = Empty
        /\ p = "playerpath" => pdelete = Empty
        /\ pathKind' = IF p = "playerpath"
                       THEN [pathKind EXCEPT ![p] = k, !["playerpath_delete"] = "missing"]
                       ELSE [pathKind EXCEPT ![p] = k]
        /\ mounted' = (mounted /\ p # "playermount")
    /\ setupOps' = setupOps + 1
    /\ UNCHANGED <<host, hostArchive, player, pdelete, parchive, blob, size, free>>
    /\ UNCHANGED runVars
    /\ snap' = FS'

\* The player is not mounted at its mount point.
Unmount ==
    /\ Setup
    /\ mounted
    /\ mounted' = FALSE
    /\ setupOps' = setupOps + 1
    /\ UNCHANGED <<pathKind, host, hostArchive, player, pdelete, parchive, blob, size, free>>
    /\ UNCHANGED runVars
    /\ snap' = FS'


\* ---- Synchronizer.run ----

\* run(debug): set up, validate and either abort or enter the archive loop.
\* The first run is a dry run or a real one; once it has returned true, one
\* more run, a real one, may follow with the same arguments.
StartRun ==
    /\ pc = "idle" \/ (pc = "done" /\ ~second)
    /\ \E d \in BOOLEAN : (pc = "idle" \/ ~d) /\ debug' = d
    /\ second' = (pc # "idle")
    /\ prev' = IF pc = "idle" THEN NoPrev
               ELSE [pc |-> pc, debug |-> debug, counts |-> counts]
    /\ snap' = FS
    /\ counts' = ZeroCounts
    /\ summaries' = 0
    /\ stopAt' = 0
    /\ idx' = Listed(parchive, 1)
    /\ IF ValidatePaths
       THEN pc' = "archive" /\ ret' = "none" /\ phases' = <<"archive">>
       ELSE pc' = "failed" /\ ret' = "false" /\ phases' = <<>>
    /\ UNCHANGED fsVars
    /\ UNCHANGED setupOps

\* An exception leaves run: nothing is returned, no summary is logged.
Raise ==
    /\ pc' = "crashed"
    /\ UNCHANGED fsVars
    /\ UNCHANGED <<setupOps, idx, debug, counts, ret, summaries, phases, stopAt,
                   second, snap, prev>>

Skip(d) ==
    /\ idx' = Listed(d, idx + 1)
    /\ UNCHANGED fsVars
    /\ UNCHANGED <<setupOps, pc, debug, counts, ret, summaries, phases, stopAt,
                   second, snap, prev>>

NextPhase(name, d) ==
    /\ pc' = name
    /\ idx' = Listed(d, 1)
    /\ phases' = Append(phases, name)
    /\ UNCHANGED fsVars
    /\ UNCHANGED <<setupOps, debug, counts, ret, summaries, stopAt, second, snap, prev>>

\* self._path_playerpath_archive.iterdir() on something that is no directory
ArchiveListFails ==
    /\ pc = "archive"
    /\ pathKind["playerarchive"] # "dir"
    /\ Raise

\* PlayerArchivePath once p is unlinked or moved away
ArchivedPlayerArchive(n) == [parchive EXCEPT ![n] = None]

\* One iteration of "for p in self._path_playerpath_archive.iterdir()".
ArchiveStep ==
    /\ pc = "archive"
    /\ pathKind["playerarchive"] = "dir"
    /\ idx <= NumNames
    /\ LET n == idx
           src == IF HostExists(n) THEN host[n] ELSE "file"
       IN  IF ~Eligible(parchive[n]) THEN Skip(parchive)
           ELSE IF ~Mutates(debug)
           THEN /\ counts' = Bump("archived")
                /\ idx' = Listed(parchive, idx + 1)
                /\ UNCHANGED fsVars
                /\ UNCHANGED <<setupOps, pc, debug, ret, summaries, phases, stopAt,
                               second, snap, prev>>
           ELSE IF ~MoveSucceeds(src, n) THEN Raise
           ELSE /\ host' = IF HostExists(n) THEN [host EXCEPT ![n] = None] ELSE host
                /\ hostArchive' = MovedArchive(src, n)
                /\ blob' = MovedBlob(n)
                /\ pathKind' = MovedPathKind(src)
                /\ parchive' = ArchivedPlayerArchive(n)
                /\ free' = free + size[n]
                /\ counts' = Bump("archived")
                /\ idx' = Listed(parchive, idx + 1)
                /\ UNCHANGED <<mounted, player, pdelete, size>>
                /\ UNCHANGED <<setupOps, pc, debug, ret, summaries, phases, stopAt,
                               second, snap, prev>>

ArchiveEnd ==
    /\ pc = "archive"
    /\ pathKind["playerarchive"] = "dir"
    /\ idx > NumNames
    /\ NextPhase("delete", pdelete)

\* Path(self._path_playerpath, 'delete').iterdir() on something that is no
\* directory
DeleteListFails ==
    /\ pc = "delete"
    /\ pathKind["playerpath_delete"] # "dir"
    /\ Raise

\* PlayerPath/delete once p is unlinked
UnlinkedDelete(n) == [pdelete EXCEPT ![n] = None]

\* One iteration of "for p in path_player_delete.iterdir()".
DeleteStep ==
    /\ pc = "delete"
    /\ pathKind["playerpath_delete"] = "dir"
    /\ idx <= NumNames
    /\ LET n == idx
       IN  IF ~Eligible(pdelete[n]) THEN Skip(pdelete)
           ELSE IF ~Mutates(debug)
           THEN /\ counts' = Bump("deleted")
                /\ idx' = Listed(pdelete, idx + 1)
                /\ UNCHANGED fsVars
                /\ UNCHANGED <<setupOps, pc, debug, ret, summaries, phases, stopAt,
                               second, snap, prev>>
           ELSE IF HostExists(n) /\ host[n] = "dir" THEN Raise
           ELSE /\ host' = IF HostExists(n) THEN [host EXCEPT ![n] = None] ELSE host
                /\ pdelete' = UnlinkedDelete(n)
                /\ free' = free + size[n]
                /\ counts' = Bump("deleted")
                /\ idx' = Listed(pdelete, idx + 1)
                /\ UNCHANGED <<pathKind, mounted, hostArchive, player, parchive, blob, size>>
                /\ UNCHANGED <<setupOps, pc, debug, ret, summaries, phases, stopAt,
                               second, snap, prev>>

DeleteEnd ==
    /\ pc = "delete"
    /\ pathKind["playerpath_delete"] = "dir"
    /\ idx > NumNames
    /\ NextPhase("copy", host)

\* self._path_host.iterdir() on something that is no directory
CopyListFails ==
    /\ pc = "copy"
    /\ pathKind["host"] # "dir"
    /\ Raise

AfterNoSpaceContinue(i) == Listed(host, i + 1)

\* "break": the copy loop visits no further host file
AfterNoSpace(i) == NumNames + 1

UncopiedPlayer(n) == player

\* PlayerPath once shutil.copy has written the file
CopiedPlayer(n) == [player EXCEPT ![n] = "file"]

\* One iteration of "for p in self._path_host.iterdir()".
CopyStep ==
    /\ pc = "copy"
    /\ pathKind["host"] = "dir"
    /\ idx <= NumNames
    /\ LET n == idx
       IN  IF ~Eligible(host[n]) \/ PlayerExists(n) THEN Skip(host)
           ELSE IF ~SpaceChecker(free, size[n])
           THEN /\ stopAt' = IF stopAt = 0 THEN n ELSE stopAt
                /\ idx' = AfterNoSpace(idx)
                /\ UNCHANGED fsVars
                /\ UNCHANGED <<setupOps, pc, debug, counts, ret, summaries, phases,
                               second, snap, prev>>
           ELSE IF ~Mutates(debug)
           THEN /\ counts' = Bump("copied")
                /\ idx' = Listed(host, idx + 1)
                /\ UNCHANGED fsVars
                /\ UNCHANGED <<setupOps, pc, debug, ret, summaries, phases, stopAt,
                               second, snap, prev>>
           ELSE IF pathKind["playerpath"] # "dir" THEN Raise
           ELSE /\ player' = CopiedPlayer(n)
                /\ free' = free - size[n]
                /\ counts' = Bump("copied")
                /\ idx' = Listed(host, idx + 1)
                /\ UNCHANGED <<pathKind, mounted, host, hostArchive, pdelete, parchive,
                               blob, size>>
                /\ UNCHANGED <<setupOps, pc, debug, ret, summaries, phases, stopAt,
                               second, snap, prev>>

\* logging.info('Archived %s files, ...'); return True
Finish ==
    /\ pc = "copy"
    /\ pathKind["host"] = "dir"
    /\ idx > NumNames
    /\ pc' = "done"
    /\ ret' = "true"
    /\ summaries' = summaries + 1
    /\ UNCHANGED fsVars
    /\ UNCHANGED <<setupOps, idx, debug, counts, phases, stopAt, second, snap, prev>>

Next ==
    \/ PutHost
    \/ PutHostArchive
    \/ PutPlayer
    \/ PutDelete
    \/ PutArchive
    \/ BreakPath
    \/ Unmount
    \/ StartRun
    \/ ArchiveListFails
    \/ ArchiveStep
    \/ ArchiveEnd
    \/ DeleteListFails
    \/ DeleteStep
    \/ DeleteEnd
    \/ CopyListFails
    \/ CopyStep
    \/ Finish

Spec == Init /\ [][Next]_vars

TypeOK ==
    /\ pathKind \in [Locations -> {"missing", "dir", "file"}]
    /\ mounted \in BOOLEAN
    /\ host \in [Names -> EntryKinds \cup {None}]
    /\ pc \in {"idle", "archive", "delete", "copy", "done", "failed", "crashed"}
    /\ free >= 0


\* ---- vocabulary of the properties ----

Regular(d) == {n \in Names : d[n] = "file"}

\* A non-debug run that passed validation is over, by its return or by an
\* exception.
RealRunOver == pc \in {"done", "crashed"} /\ ~debug

\* At least one of the six configured paths does not exist, or the player
\* mount point exists but is not an active mount.
Invalid(f) ==
    \/ \E p \in Configured : f.pathKind[p] = "missing"
    \/ f.pathKind["playermount"] # "missing" /\ ~f.mounted

IsPrefix(s, t) == Len(s) <= Len(t) /\ \A i \in 1..Len(s) : s[i] = t[i]

PhaseOrder == <<"archive", "delete", "copy">>

\* ---- C1 ----
\* C1: when a configured path is missing or the mount point is not an active
\* mount, run returns false, in debug mode or not, and the filesystem is what
\* it was before the call.
C1_InvalidPathsAbort ==
    (pc # "idle" /\ Invalid(snap)) =>
        /\ pc = "failed"
        /\ ret = "false"
        /\ summaries = 0
        /\ counts = ZeroCounts
        /\ FS = snap

\* a run was refused although the player archive held a file to archive
C1_Witness ==
    /\ pc = "failed"
    /\ Invalid(snap)
    /\ Regular(parchive) # {}

\* ---- C2 ----
\* C2: after a non-debug run that passed validation, every regular file that
\* was in PlayerArchivePath when the run started is in HostArchivePath, is
\* neither in PlayerArchivePath nor in HostPath, and the archived count is the
\* number of those files.
C2_ArchivedToHost ==
    (RealRunOver /\ ~second) =>
        /\ \A n \in Regular(snap.parchive) :
              /\ pathKind["hostarchive"] = "dir" /\ hostArchive[n] # None
              /\ parchive[n] = None
              /\ host[n] = None
        /\ counts.archived = Cardinality(Regular(snap.parchive))

\* ---- C3 ----
\* C3: after a non-debug run that passed validation and reached the delete
\* phase, every regular file that was in PlayerPath/delete is gone from there
\* and from HostPath, and the deleted count is the number of those files.
C3_DeleteQueueEmptied ==
    (RealRunOver /\ ~second /\ Len(phases) >= 2 /\ pathKind["playerpath_delete"] = "dir") =>
        /\ \A n \in Regular(snap.pdelete) : pdelete[n] = None /\ host[n] = None
        /\ counts.deleted = Cardinality(Regular(snap.pdelete))

\* ---- C4 ----
\* C4: the copy loop breaks at the first regular host file that PlayerPath
\* lacks and the mount has no room for; that file and every host file listed
\* after it are not copied, the copied count is the number of files copied
\* before it, and what the archive and delete phases did stays done.
C4_CopyStopsAtFirstMisfit ==
    (stopAt # 0) =>
        /\ pc \in {"copy", "done"}
        /\ idx = NumNames + 1
        /\ host[stopAt] = "file" /\ player[stopAt] = None
        /\ free < size[stopAt]
        /\ \A m \in Names : m > stopAt => player[m] = snap.player[m]
        /\ counts.copied =
              Cardinality({m \in Names : m < stopAt /\ host[m] = "file"
                                          /\ snap.player[m] = None})
        /\ ~debug => /\ \A m \in Names : m < stopAt /\ host[m] = "file" => player[m] # None
                     /\ Regular(parchive) = {}
                     /\ Regular(pdelete) = {}
                     /\ counts.archived = Cardinality(Regular(snap.parchive))
                     /\ counts.deleted = Cardinality(Regular(snap.pdelete))

\* the loop broke before a later host file that would have fitted
C4_Witness ==
    /\ pc = "done"
    /\ ~debug
    /\ stopAt # 0
    /\ \E m \in Names : /\ m > stopAt
                        /\ host[m] = "file"
                        /\ player[m] = None
                        /\ size[m] <= free

\* ---- C5 ----
\* C5: a debug run changes nothing: the five directories, the locations and
\* the free space of the mount stay what they were when the run started.
C5_DebugTouchesNothing == (debug /\ pc # "idle") => FS = snap

\* a debug run has counted a file in each of two phases
C5_Witness ==
    /\ debug
    /\ pc = "done"
    /\ counts.archived + counts.deleted + counts.copied >= 2

\* ---- C6 ----
\* C6: a real run that follows a debug run on the same filesystem reports the
\* three counts the debug run reported.
C6_DebugCountsPredictRealRun ==
    (second /\ prev.debug /\ pc = "done") => counts = prev.counts

\* ---- C7 ----
\* C7: a run never moves, deletes, copies or counts an entry that is a
\* directory or a symbolic link, in any of the five directories.
C7_OnlyRegularFilesTouched ==
    (pc # "idle") =>
        /\ \A n \in Names :
              /\ snap.host[n] \in {"dir", "link"} => host[n] = snap.host[n]
              /\ snap.parchive[n] \in {"dir", "link"} => parchive[n] = snap.parchive[n]
              /\ snap.pdelete[n] \in {"dir", "link"} => pdelete[n] = snap.pdelete[n]
              /\ hostArchive[n] \in {None, "file"}
              /\ player[n] \in {None, "file"}
        /\ counts.archived <= Cardinality(Regular(snap.parchive))
        /\ counts.deleted <= Cardinality(Regular(snap.pdelete))
        /\ counts.copied <= Cardinality(Regular(snap.host))

\* ---- C8 ----
\* C8: a run that passed validation goes through the archive, delete and copy
\* phases in that order, logs one summary after them and returns true.
C8_ValidatedRunReturnsTrue ==
    (pc \notin {"idle", "failed"}) =>
        /\ pc \in {"archive", "delete", "copy", "done"}
        /\ IsPrefix(phases, PhaseOrder)
        /\ pc # "done" => summaries = 0 /\ ret = "none"
        /\ pc = "done" => phases = PhaseOrder /\ summaries = 1 /\ ret = "true"

\* ---- C9 ----
\* C9: once a run has changed the filesystem, all six locations, and the
\* delete directory the run scans, are directories, and the player mount
\* point is an active mount.
C9_MutationOnlyAmongDirectories ==
    (pc # "idle" /\ FS # snap) =>
        /\ snap.mounted
        /\ \A p \in Locations : snap.pathKind[p] = "dir"

\* ---- C10 ----
\* C10: a non-debug run that follows a non-debug run that returned true
\* passes validation, raises nothing, counts nothing and leaves the
\* filesystem as it found it.
C10_SecondRunIdle ==
    (second /\ ~prev.debug) =>
        /\ prev.pc = "done"
        /\ pc \in {"archive", "delete", "copy", "done"}
        /\ counts = ZeroCounts
        /\ FS = snap

\* the second run is over after a first run that copied a file and then broke
\* off its copy loop for lack of space
C10_Witness ==
    /\ second
    /\ ~prev.debug
    /\ pc = "done"
    /\ prev.counts.copied > 0
    /\ stopAt # 0

====
